---- MODULE Spec2Model ----
(***************************************************************************)
(* Model of extension.js: the image-upload command runner.                 *)
(*                                                                         *)
(* JavaScript runs each event-loop turn to completion, so one action is    *)
(* one turn: a command handler up to its first pending await, or a child   *)
(* process's exit callback together with the promise continuations it      *)
(* releases.  Between turns the user may edit the settings and child       *)
(* processes of any invocation may exit.                                   *)
(*                                                                         *)
(* Strings that the code builds are modelled as sequences of words; a      *)
(* file system write that throws (mkdirSync / appendFileSync) is an        *)
(* outcome of the writeLog call that performs it.  The selected folder is  *)
(* readable (readdirSync and statSync return) and the environment shell    *)
(* is the zsh one.                                                         *)
(***************************************************************************)
EXTENDS Integers, Sequences, FiniteSets, TLC

\* ------------------------------------------------------------------ bounds

\* Files that may exist in a selected folder (file k has extension ExtOf(k)).
MaxFiles == 4

Invocations == {1}

\* ------------------------------------------------------------- file system

FileIds == 1 .. MaxFiles

ExtCycle == <<"png", "txt", "JPG", "webp", "gif", "md">>

ExtOf(k) == ExtCycle[((k - 1) % Len(ExtCycle)) + 1]

PathOf(k) == "/d/f" \o ToString(k) \o "." \o ExtOf(k)

\* The /i flag of the extension test at line 301.
LowerCase(e) ==
    CASE e = "JPG" -> "jpg"
      [] e = "PNG" -> "png"
      [] OTHER -> e

ImageExtensions == {"png", "jpg", "jpeg", "gif", "webp"}

\* /\.(png|jpg|jpeg|gif|webp)$/i.test(file)
IsImage(k) == LowerCase(ExtOf(k)) \in ImageExtensions

RECURSIVE SetToSeq(_)
SetToSeq(S) ==
    IF S = {} THEN <<>>
    ELSE LET m == CHOOSE x \in S : \A y \in S : x <= y
         IN <<m>> \o SetToSeq(S \ {m})

FileEntry(k) == [isDir |-> FALSE, file |-> k, sub |-> <<>>]

DirEntry(d) == [isDir |-> TRUE, file |-> 0, sub |-> d]

FlatDir(S) == [j \in 1 .. Cardinality(S) |-> FileEntry(SetToSeq(S)[j])]

\* The same files with all but the first inside a subdirectory.
NestedDir(S) ==
    LET q == SetToSeq(S)
    IN <<FileEntry(q[1]), DirEntry(FlatDir(S \ {q[1]}))>>

\* The folders a user selects: the first k files, flat or nested, and a
\* folder that holds no image.
Folders ==
    {FlatDir(1 .. k) : k \in 0 .. MaxFiles}
        \cup {NestedDir(1 .. k) : k \in 1 .. MaxFiles}
        \cup {FlatDir({k \in FileIds : ~IsImage(k)})}

\* walk(dir): depth-first, files in listing order, images only.
RECURSIVE walk(_)
walk(dir) ==
    IF dir = <<>> THEN <<>>
    ELSE LET e == Head(dir)
             here == IF e.isDir THEN walk(e.sub)
                     ELSE IF IsImage(e.file) THEN <<e.file>>
                     ELSE <<>>
         IN here \o walk(Tail(dir))

\* ---------------------------------------------------------------- settings

Placeholder == "{imagePath}"

\* uploadCommand: unset, with the placeholder, without it.
Templates == {<<>>, <<"up", Placeholder>>, <<"up", "--flag">>}

ScriptPaths == {"", "/s.sh"}

Settings == [uploadCommand : Templates, scriptPath : ScriptPaths]

\* contributes.configuration of package.json: logEnabled and logLevel.
LogLevels == {"error", "warn", "info", "debug"}

LogSettings == [logEnabled : BOOLEAN, logLevel : LogLevels]

\* The defaults of package.json.
DefaultLogSettings == [logEnabled |-> TRUE, logLevel |-> "info"]

\* --------------------------------------------------------- command strings

Quote(s) == "\"" \o s \o "\""

\* uploadCommand.replace(/\{imagePath\}/g, imagePath)
ReplacePlaceholder(template, imagePath) ==
    [j \in 1 .. Len(template) |->
        IF template[j] = Placeholder THEN imagePath ELSE template[j]]

\* "${scriptPath}" "${imagePath}"
ScriptCommand(scriptPath, imagePath) == <<Quote(scriptPath), Quote(imagePath)>>

\* source ~/.zshrc > /dev/null 2>&1 && ${command}
FullCommand(command) ==
    <<"source", "~/.zshrc", ">", "/dev/null", "2>&1", "&&">> \o command

\* zsh -i -c "${fullCommand}"
ZshLine(fullCommand) == <<"zsh", "-i", "-c", "\"">> \o fullCommand \o <<"\"">>

\* zsh -i -c "source ~/.zshrc > /dev/null 2>&1; env"
EnvCommand == <<"zsh", "-i", "-c", "source ~/.zshrc > /dev/null 2>&1; env">>

\* Math.round((index / total) * 100)
Percentage(index, total) == (200 * index + total) \div (2 * total)

\* ------------------------------------------------------------- environment

\* process.env of the extension host.
ProcessEnv ==
    ("HOME" :> "/home/u") @@ ("PATH" :> "/usr/bin") @@ ("SHELL" :> "/bin/zsh")
        @@ ("LANG" :> "C")

\* os.homedir()
HomeDir == "/home/u"

\* process.env.SHELL || '/bin/zsh'
Shell == IF "SHELL" \in DOMAIN ProcessEnv /\ ProcessEnv["SHELL"] # ""
         THEN ProcessEnv["SHELL"] ELSE "/bin/zsh"

\* What the environment shell prints: stdout.split('\n'), each line as
\* line.split('=').  The rc file extends PATH and sets OPTS; it may unset
\* LANG and print a line of its own; the shell may print nothing.
ShellOutputs ==
    {<< <<"HOME", "/home/u">>, <<"PATH", "/opt/bin:/usr/bin">>,
        <<"SHELL", "/bin/zsh">>, <<"LANG", "C">>, <<"OPTS", "a", "b">>, <<"">> >>,
     << <<"HOME", "/home/u">>, <<"PATH", "/opt/bin:/usr/bin">>,
        <<"SHELL", "/bin/zsh">>, <<"welcome">>, <<"">> >>,
     << <<"">> >>}

NoEnv == [n \in {} |-> ""]

\* values.join('=')
RECURSIVE Join(_)
Join(values) ==
    IF values = <<>> THEN ""
    ELSE IF Len(values) = 1 THEN values[1]
    ELSE values[1] \o "=" \o Join(Tail(values))

\* env[key] = value
Put(env, key, value) ==
    [n \in DOMAIN env \cup {key} |-> IF n = key THEN value ELSE env[n]]

\* env.X || fallback: an absent and an empty variable are both falsy.
OrElse(env, key, fallback) ==
    IF key \in DOMAIN env /\ env[key] # "" THEN env[key] ELSE fallback

\* The forEach over the lines of stdout (lines 130-135).
RECURSIVE parseLines(_, _)
parseLines(lines, env) ==
    IF lines = <<>> THEN env
    ELSE LET key == Head(lines)[1]
         IN parseLines(Tail(lines),
                       IF key # "" THEN Put(env, key, Join(Tail(Head(lines))))
                       ELSE env)

\* The object the try block resolves with (lines 129-140).
shellEnv(stdout) ==
    LET env == parseLines(stdout, NoEnv)
        e1 == Put(env, "HOME", OrElse(env, "HOME", HomeDir))
        e2 == Put(e1, "PATH", OrElse(e1, "PATH", ProcessEnv["PATH"]))
    IN Put(e2, "SHELL", OrElse(e2, "SHELL", Shell))

\* What the latest environment query of an execution returned.
NoQuery == [ok |-> FALSE, stdout |-> <<>>]

\* ------------------------------------------------------------------ errors

NoError == [type |-> "none", file |-> 0]

ExecError(k) == [type |-> "exec", file |-> k]

NoConfigurationError == [type |-> "noconfig", file |-> 0]

LogWriteError == [type |-> "logwrite", file |-> 0]

\* ------------------------------------------------------------------- state

VARIABLES
    settings,       \* persisted scriptPath / uploadCommand
    logSettings,    \* persisted logEnabled / logLevel
    logFile,        \* ~/.vs-upload-image/upload.log: the number of its lines
    spawned,        \* every child process started, in order
    last,           \* per invocation: the details of its latest child
    running,        \* child processes that have not exited
    exits,          \* every child process exit delivered, in order
    notifications,  \* messages shown to the user, in order
    progress,       \* progress.report calls, in order
    opened,         \* invocations that opened the settings page
    pc,             \* per invocation: idle, prompt, running, done, rejected, hung
    inv             \* per invocation: its kind and its target list

vars == <<settings, logSettings, logFile, spawned, last, running, exits,
          notifications, progress, opened, pc, inv>>

\* resolved: the target list has been computed (the folder was walked, or
\* the single file was taken from the uri).
NoInvocation == [kind |-> "none", imageFiles |-> <<>>, resolved |-> FALSE]

NoChild ==
    [kind |-> "none", file |-> 0,
     read |-> [uploadCommand |-> <<>>, scriptPath |-> ""],
     command |-> <<>>, line |-> <<>>, env |-> NoEnv, query |-> NoQuery]

Init ==
    /\ settings \in Settings
    /\ logSettings = DefaultLogSettings
    /\ logFile = 0
    /\ spawned = <<>>
    /\ last = [v \in Invocations |-> NoChild]
    /\ running = {}
    /\ exits = <<>>
    /\ notifications = <<>>
    /\ progress = <<>>
    /\ opened = {}
    /\ pc = [v \in Invocations |-> "idle"]
    /\ inv = [v \in Invocations |-> NoInvocation]

\* ----------------------------------------------------- one event-loop turn

\* The part of the state that a turn of invocation v reads and writes.  A
\* block of code is an operator from the world it starts in to the set of
\* worlds it can end in.
World(v) ==
    [logFile |-> logFile, spawned |-> spawned, last |-> last[v],
     running |-> running, exits |-> exits, notifications |-> notifications,
     progress |-> progress, pc |-> pc[v], inv |-> inv[v], threw |-> FALSE]

\* writeLog(content): either the line is appended and the call returns, or
\* mkdirSync / appendFileSync throws and the exception leaves writeLog.
\* Neither logEnabled nor logLevel is read.
writeLog(s, content) ==
    {[s EXCEPT !.logFile = @ + 1, !.threw = FALSE], [s EXCEPT !.threw = TRUE]}

showNotification(s, v, type, key, error) ==
    [s EXCEPT !.notifications =
        Append(@, [inv |-> v, type |-> type, key |-> key, error |-> error])]

\* progress.report({ increment: ... }) with the counter shown in the message;
\* the increment is incNum / incDen percent.  The report records how many
\* children had been spawned and how many exits delivered when it was made.
report(s, v, kind, index, total, incNum, incDen) ==
    [s EXCEPT !.progress =
        Append(@, [inv |-> v, kind |-> kind, index |-> index, total |-> total,
                   percentage |-> IF kind = "file" THEN Percentage(index, total) ELSE 0,
                   incNum |-> incNum, incDen |-> incDen,
                   spawnedSoFar |-> Len(s.spawned), exitsSoFar |-> Len(s.exits)])]

\* child_process.exec(line, { env }): the child runs until its exit callback
\* is delivered.  command is the part of the line built for the file, read
\* the settings that the execution read and env the environment of the child
\* (process.env when no env option is passed).
exec(s, child, read, command, line, env) ==
    [s EXCEPT !.spawned = Append(@, [inv |-> child.inv, kind |-> child.kind,
                                     file |-> child.file]),
              !.last = [kind |-> child.kind, file |-> child.file, read |-> read,
                        command |-> command, line |-> line, env |-> env,
                        query |-> IF child.kind = "env" THEN NoQuery
                                  ELSE s.last.query],
              !.running = @ \cup {child},
              !.pc = "running"]

\* A callback that throws leaves its promise pending for ever.
hang(s) == [s EXCEPT !.pc = "hung"]

\* A catch block that also ends every child that is running.
catchBlockStopsAll(s, v, error) ==
    {IF t.threw THEN [t EXCEPT !.pc = "rejected", !.running = {}]
     ELSE [showNotification(t, v, "error", "scriptError", error)
              EXCEPT !.pc = "done", !.running = {}] :
        t \in writeLog(s, "scriptError")}

\* catch (error) of uploadSingleImage / uploadFolderImages.
catchBlock(s, v, error) ==
    {IF t.threw THEN [t EXCEPT !.pc = "rejected"]
     ELSE [showNotification(t, v, "error", "scriptError", error)
              EXCEPT !.pc = "done"] :
        t \in writeLog(s, "scriptError")}

\* The end of the withProgress task and the statement after it.
finish(s, v) ==
    [showNotification(report(s, v, "end", 0, 0, 100, 1), v, "info",
                      "uploadSuccess", NoError)
        EXCEPT !.pc = "done"]

\* executeUploadCommand up to its first await: the settings are read and
\* getEnvironmentVariables starts the shell that prints the environment.
executeUploadCommand(s, v, file, index, total, i) ==
    LET child == [inv |-> v, kind |-> "env", file |-> file, index |-> index,
                  total |-> total, i |-> i,
                  uploadCommand |-> settings.uploadCommand,
                  scriptPath |-> settings.scriptPath]
    IN UNION {IF t.threw THEN catchBlock(t, v, LogWriteError)
              ELSE {exec(t, child, settings, <<>>, EnvCommand, ProcessEnv)} :
                 t \in writeLog(s, "Using shell command")}

\* The loop variable passed as it is.
IndexArgOffByOne(i) == i

\* executeUploadCommand(imageFiles[i], progress, i + 1, imageFiles.length)
IndexArg(i) == i + 1

\* A loop that does not await its uploads runs every iteration at once.
IterationsWithoutAwait(i, n) == i .. n - 1

\* The iterations of the for loop that run before it suspends, from loop
\* variable i over n files: each iteration awaits its upload.
IterationsThisTurn(i, n) == IF i < n THEN {i} ELSE {}

RECURSIVE startIterations(_, _, _, _)
startIterations(S, v, files, its) ==
    IF its = {} THEN S
    ELSE LET i == CHOOSE x \in its : \A y \in its : x <= y
         IN startIterations(
                UNION {IF s.pc \in {"done", "rejected"} THEN {s}
                       ELSE executeUploadCommand(s, v, files[i + 1], IndexArg(i),
                                                 Len(files), i) : s \in S},
                v, files, its \ {i})

\* The for loop of uploadFolderImages entered with loop variable i.
forLoop(s, v, files, i) ==
    LET its == IterationsThisTurn(i, Len(files))
    IN IF its = {} THEN {finish(s, v)}
       ELSE startIterations({s}, v, files, its)

\* A test that no list passes.
NoImagesNever(files) == Len(files) < 0

\* imageFiles.length === 0
NoImages(files) == Len(files) = 0

\* uploadFolderImages(uri) for a selected folder.
uploadFolderImages(s, v, folder) ==
    LET files == walk(folder)
        Walked(t) == [t EXCEPT !.inv.imageFiles = files, !.inv.resolved = TRUE]
    IN UNION {IF t.threw THEN {[t EXCEPT !.pc = "rejected"]}
              ELSE IF NoImages(files)
                   THEN {[showNotification(Walked(t), v, "info", "noImages", NoError)
                             EXCEPT !.pc = "done"]}
              ELSE forLoop(report(Walked(t), v, "start", 0, 0, 0, 1), v, files, 0) :
                 t \in writeLog(s, "Starting upload for folder")}

\* uploadSingleImage(uri) for a selected file.
uploadSingleImage(s, v, file) ==
    LET Taken(t) == [t EXCEPT !.inv.imageFiles = <<file>>, !.inv.resolved = TRUE]
    IN UNION {IF t.threw THEN {[t EXCEPT !.pc = "rejected"]}
              ELSE executeUploadCommand(report(Taken(t), v, "start", 0, 0, 0, 1),
                                        v, file, 1, 1, 0) :
                 t \in writeLog(s, "Starting upload for file")}

\* The command the per-file execution runs, from the settings it read.
BuildCommand(uploadCommand, scriptPath, imagePath) ==
    IF uploadCommand # <<>> THEN ReplacePlaceholder(uploadCommand, imagePath)
    ELSE ScriptCommand(scriptPath, imagePath)

\* A progress object that is never reported to.
reportProgressSkipped(s, v, c) == s

\* if (progress) { progress.report({ message, increment: (1 / total) * 100 }) }
reportProgress(s, v, c) == report(s, v, "file", c.index, c.total, 100, c.total)

\* The promise executor of executeUploadCommand (lines 175-233).
runCommand(s, v, c, env) ==
    LET s1 == reportProgress(s, v, c)
        read == [uploadCommand |-> c.uploadCommand, scriptPath |-> c.scriptPath]
        command == BuildCommand(c.uploadCommand, c.scriptPath, PathOf(c.file))
    IN IF c.uploadCommand = <<>> /\ c.scriptPath = ""
       THEN catchBlock(s1, v, NoConfigurationError)
       ELSE UNION {IF t1.threw THEN catchBlock(t1, v, LogWriteError)
                   ELSE UNION {IF t2.threw THEN catchBlock(t2, v, LogWriteError)
                               ELSE {exec(t2, [c EXCEPT !.kind = "cmd"], read,
                                          command, ZshLine(FullCommand(command)),
                                          env)} :
                                  t2 \in writeLog(t1, "Full command")} :
                      t1 \in writeLog(s1, "Executing")}

\* executeUploadCommand once getEnvironmentVariables has resolved (line 173 on).
afterEnvironment(s, v, c, env) ==
    UNION {IF t.threw THEN catchBlock(t, v, LogWriteError)
           ELSE runCommand(t, v, c, env) :
              t \in writeLog(s, "Using SHELL")}

\* The exit callback of the environment shell (lines 120-148), with the
\* error (ok = FALSE) or the stdout the shell printed.
envCallback(s0, v, c, ok, stdout) ==
    LET s == [s0 EXCEPT !.last.query = [ok |-> ok,
                                        stdout |-> IF ok THEN stdout ELSE <<>>]]
    IN IF ~ok
       THEN UNION {IF t.threw THEN {hang(t)}
                   ELSE afterEnvironment(t, v, c, ProcessEnv) :
                      t \in writeLog(s, "Error getting environment")}
       ELSE UNION {IF ~t.threw THEN afterEnvironment(t, v, c, shellEnv(stdout))
                   ELSE UNION {IF u.threw THEN {hang(u)}
                               ELSE afterEnvironment(u, v, c, ProcessEnv) :
                                  u \in writeLog(t, "Error parsing environment")} :
                      t \in writeLog(s, "Loaded environment variables")}

\* if (stdout) writeLog(...) and if (stderr) writeLog(...)
logOutput(s, present, content) ==
    IF present THEN writeLog(s, content) ELSE {[s EXCEPT !.threw = FALSE]}

\* The exit callback of the upload command (lines 198-207 and 220-229) and
\* what the resolved or rejected promise releases.
cmdCallback(s, v, c, ok, hasStdout, hasStderr) ==
    IF ~ok
    THEN UNION {IF t.threw THEN {hang(t)}
                ELSE catchBlock(t, v, ExecError(c.file)) :
                   t \in writeLog(s, "Error")}
    ELSE UNION {IF t.threw THEN {hang(t)}
                ELSE UNION {IF u.threw THEN {hang(u)}
                            ELSE IF inv[v].kind = "single" THEN {finish(u, v)}
                            ELSE forLoop(u, v, inv[v].imageFiles, c.i + 1) :
                               u \in logOutput(t, hasStderr, "stderr")} :
                   t \in logOutput(s, hasStdout, "stdout")}

\* ----------------------------------------------------------------- actions

Commit(v, s) ==
    /\ logFile' = s.logFile
    /\ spawned' = s.spawned
    /\ last' = [last EXCEPT ![v] = s.last]
    /\ running' = s.running
    /\ exits' = s.exits
    /\ notifications' = s.notifications
    /\ progress' = s.progress
    /\ pc' = [pc EXCEPT ![v] = s.pc]
    /\ inv' = [inv EXCEPT ![v] = s.inv]

\* The exit of child c, with error null (ok) or not.
Exit(c, ok) == [inv |-> c.inv, kind |-> c.kind, file |-> c.file, ok |-> ok]

\* The command handlers registered by activate (lines 359-379, 382-402).
Invoke(v, kind, hasUri, file, folder) ==
    /\ pc[v] = "idle"
    /\ UNCHANGED <<settings, logSettings, opened>>
    /\ LET s == [World(v) EXCEPT !.inv.kind = kind]
       IN IF settings.scriptPath = "" /\ settings.uploadCommand = <<>>
          THEN Commit(v, [showNotification(s, v, "error", "noScriptPath",
                                           NoConfigurationError)
                             EXCEPT !.pc = "prompt"])
          ELSE IF ~hasUri
          THEN Commit(v, [showNotification(s, v, "error", "noImage", NoError)
                             EXCEPT !.pc = "done"])
          ELSE IF kind = "single"
          THEN \E t \in uploadSingleImage(s, v, file) : Commit(v, t)
          ELSE \E t \in uploadFolderImages(s, v, folder) : Commit(v, t)

\* The user answers the "not configured" message.
PromptAnswer(v, answer) ==
    /\ pc[v] = "prompt"
    /\ pc' = [pc EXCEPT ![v] = "done"]
    /\ opened' = IF answer = "configure" THEN opened \cup {v} ELSE opened
    /\ UNCHANGED <<settings, logSettings, logFile, spawned, last, running,
                   exits, notifications, progress, inv>>

\* The environment shell of an execution exits.
EnvExit(c, ok, stdout) ==
    /\ c \in running
    /\ c.kind = "env"
    /\ \E s \in envCallback([World(c.inv) EXCEPT
                                  !.running = @ \ {c},
                                  !.exits = Append(@, Exit(c, ok))],
                            c.inv, c, ok, stdout) : Commit(c.inv, s)
    /\ UNCHANGED <<settings, logSettings, opened>>

\* The upload command of an execution exits.
CmdExit(c, ok, hasStdout, hasStderr) ==
    /\ c \in running
    /\ c.kind = "cmd"
    /\ \E s \in cmdCallback([World(c.inv) EXCEPT
                                  !.running = @ \ {c},
                                  !.exits = Append(@, Exit(c, ok))],
                            c.inv, c, ok, hasStdout, hasStderr) : Commit(c.inv, s)
    /\ UNCHANGED <<settings, logSettings, opened>>

\* The user edits scriptPath / uploadCommand in the settings.
EditSettings(new) ==
    /\ new # settings
    /\ settings' = new
    /\ UNCHANGED <<logSettings, logFile, spawned, last, running, exits,
                   notifications, progress, opened, pc, inv>>

\* The user edits logEnabled / logLevel in the settings.
EditLogSettings(new) ==
    /\ new # logSettings
    /\ logSettings' = new
    /\ UNCHANGED <<settings, logFile, spawned, last, running, exits,
                   notifications, progress, opened, pc, inv>>

Invocation ==
    \E v \in Invocations, kind \in {"single", "folder"}, hasUri \in BOOLEAN,
       file \in FileIds, folder \in Folders :
       Invoke(v, kind, hasUri, file, folder)

Answer ==
    \E v \in Invocations, answer \in {"configure", "cancel", "dismissed"} :
       PromptAnswer(v, answer)

EnvironmentShellExit ==
    \E c \in running, ok \in BOOLEAN, stdout \in ShellOutputs :
       EnvExit(c, ok, stdout)

CommandExit ==
    \E c \in running, ok, hasStdout, hasStderr \in BOOLEAN :
       CmdExit(c, ok, hasStdout, hasStderr)

SettingsEdit == \E new \in Settings : EditSettings(new)

LogSettingsEdit == \E new \in LogSettings : EditLogSettings(new)

Next ==
    \/ Invocation
    \/ Answer
    \/ EnvironmentShellExit
    \/ CommandExit
    \/ SettingsEdit

Spec == Init /\ [][Next]_vars

\* The same program with the user editing the logging settings instead.
\* Two invocations of the folder command, as after two right-clicks in a
\* row: each handler runs on its own (lines 382-402), on a folder of two
\* images; the folders share f3.  The settings are not edited meanwhile.
Pair == {1, 2}

PairFolder(v) == IF v = 1 THEN FlatDir({1, 3}) ELSE FlatDir({3, 4})

PairSettings == [uploadCommand |-> <<>>, scriptPath |-> "/s.sh"]

PairOutput ==
    << <<"HOME", "/home/u">>, <<"PATH", "/opt/bin:/usr/bin">>,
       <<"SHELL", "/bin/zsh">>, <<"welcome">>, <<"">> >>

InitPair ==
    /\ settings = PairSettings
    /\ logSettings = DefaultLogSettings
    /\ logFile = 0
    /\ spawned = <<>>
    /\ last = [v \in Pair |-> NoChild]
    /\ running = {}
    /\ exits = <<>>
    /\ notifications = <<>>
    /\ progress = <<>>
    /\ opened = {}
    /\ pc = [v \in Pair |-> "idle"]
    /\ inv = [v \in Pair |-> NoInvocation]

PairInvocation == \E v \in Pair : Invoke(v, "folder", TRUE, 1, PairFolder(v))

PairEnvironmentShellExit ==
    \E c \in running, ok \in BOOLEAN : EnvExit(c, ok, PairOutput)

PairCommandExit == \E c \in running, ok \in BOOLEAN : CmdExit(c, ok, FALSE, FALSE)

NextPair ==
    \/ PairInvocation
    \/ PairEnvironmentShellExit
    \/ PairCommandExit

SpecPair == InitPair /\ [][NextPair]_vars

\* Every child process that is running exits at some time: the operating
\* system delivers the exit of each child to its callback.
SpecFair ==
    Spec /\ WF_vars(EnvironmentShellExit) /\ WF_vars(CommandExit)

NextLog ==
    \/ Invocation
    \/ Answer
    \/ EnvironmentShellExit
    \/ CommandExit
    \/ LogSettingsEdit

SpecLog == Init /\ [][NextLog]_vars


\* ------------------------------------------------------------------ claims

\* The entries of a history that belong to invocation v.
Mine(history, v) == SelectSeq(history, LAMBDA x : x.inv = v)

Range(f) == {f[j] : j \in DOMAIN f}

\* The place of a file in the target list of v.
PositionOf(v, file) ==
    CHOOSE j \in 1 .. Len(inv[v].imageFiles) : inv[v].imageFiles[j] = file

Notified(v, type, key) ==
    \E n \in Range(notifications) : n.inv = v /\ n.type = type /\ n.key = key

NotifiedError(v, error) ==
    \E n \in Range(notifications) :
        n.inv = v /\ n.type = "error" /\ n.key = "scriptError" /\ n.error = error

\* The success and error notifications that end a batch of v.
TerminalNotifications(v) ==
    SelectSeq(notifications,
              LAMBDA n : n.inv = v /\ n.key \in {"uploadSuccess", "scriptError"})

\* The commands of v that exited with and without an error.
CommandExits(v, ok) ==
    {e \in Range(exits) : e.inv = v /\ e.kind = "cmd" /\ e.ok = ok}

\* No command is spawned for a target after the one whose command failed.
NoSpawnAfterFailure(v) ==
    \A e \in CommandExits(v, FALSE) : \A c \in Range(spawned) :
        (c.inv = v /\ c.kind = "cmd") => PositionOf(v, c.file) <= PositionOf(v, e.file)

\* C1: in a folder batch, once the command of a target has failed no command
\* is spawned for a later target, the error notification with that target's
\* error is shown and the success notification is not.
C1_AbortOnFirstFailure ==
    \A v \in Invocations :
        (inv[v].kind = "folder" /\ CommandExits(v, FALSE) # {}) =>
            /\ NoSpawnAfterFailure(v)
            /\ \A e \in CommandExits(v, FALSE) : NotifiedError(v, ExecError(e.file))
            /\ ~Notified(v, "info", "uploadSuccess")

\* The abort alone: what C1 says of the processes spawned.
C1_AbortOnly ==
    \A v \in Invocations :
        /\ NoSpawnAfterFailure(v)
        /\ CommandExits(v, FALSE) # {} => ~Notified(v, "info", "uploadSuccess")

C1_Witness ==
    \E v \in Invocations :
        /\ inv[v].kind = "folder"
        /\ Len(inv[v].imageFiles) = 3
        /\ \E e \in CommandExits(v, FALSE) : PositionOf(v, e.file) = 1

\* C2: an invocation has at most one child process running, environment
\* shell or command, and as many as it has spawned and not seen exit: a
\* child is spawned only after the one before it has exited.
C2_Sequential ==
    \A v \in Invocations :
        LET mine == {c \in running : c.inv = v}
        IN /\ Cardinality(mine) <= 1
           /\ Cardinality(mine) = Len(Mine(spawned, v)) - Len(Mine(exits, v))

C2_Witness ==
    \E v \in Invocations :
        /\ Len(Mine(spawned, v)) >= 4
        /\ \E c \in running : c.inv = v /\ c.kind = "cmd"

\* C3: a command built from settings in which scriptPath and uploadCommand
\* are both set is the script form, "<scriptPath>" "<filePath>".
C3_ScriptPrecedence ==
    \A v \in Invocations :
        (/\ last[v].kind = "cmd"
         /\ last[v].read.scriptPath # ""
         /\ last[v].read.uploadCommand # <<>>) =>
            last[v].command =
                ScriptCommand(last[v].read.scriptPath, PathOf(last[v].file))

\* C4: a command built from settings without scriptPath and with a template
\* that holds no placeholder is the template followed by the quoted path of
\* the target.
C4_TrailingArgument ==
    \A v \in Invocations :
        (/\ last[v].kind = "cmd"
         /\ last[v].read.scriptPath = ""
         /\ Placeholder \notin Range(last[v].read.uploadCommand)) =>
            last[v].command =
                last[v].read.uploadCommand \o <<Quote(PathOf(last[v].file))>>

\* C5: no child process, environment shell or command, is spawned by a run
\* that read settings in which scriptPath and uploadCommand are both empty.
C5_NoConfigurationNoProcess ==
    \A v \in Invocations :
        /\ last[v].kind # "none" =>
              ~(last[v].read.scriptPath = "" /\ last[v].read.uploadCommand = <<>>)
        /\ pc[v] = "prompt" => Mine(spawned, v) = <<>>

\* C6: a folder invocation whose walk finds no image ends with the one
\* informational notification, no child process, no progress report and no
\* success notification.
C6_EmptyTargetSet ==
    \A v \in Invocations :
        (inv[v].kind = "folder" /\ inv[v].resolved /\ inv[v].imageFiles = <<>>) =>
            /\ pc[v] = "done"
            /\ Mine(notifications, v) =
                   <<[inv |-> v, type |-> "info", key |-> "noImages", error |-> NoError]>>
            /\ Mine(spawned, v) = <<>>
            /\ Mine(progress, v) = <<>>

C6_Witness ==
    \E v \in Invocations :
        inv[v].kind = "folder" /\ inv[v].resolved /\ inv[v].imageFiles = <<>>

\* C7: an invocation with targets shows at most one of the success and the
\* error notification, exactly one once it has returned, the success one
\* only after the command of every target has exited without error and the
\* error one only for a failed execution.
C7_OneTerminalNotification ==
    \A v \in Invocations :
        (inv[v].resolved /\ inv[v].imageFiles # <<>>) =>
            /\ Len(TerminalNotifications(v)) <= 1
            /\ pc[v] \in {"done", "rejected"} => Len(TerminalNotifications(v)) = 1
            /\ Notified(v, "info", "uploadSuccess") =>
                  {e.file : e \in CommandExits(v, TRUE)} = Range(inv[v].imageFiles)
            /\ \A n \in Range(TerminalNotifications(v)) :
                  n.type = "error" => n.error # NoError

\* The part of C7 that no failed log write touches.
C7_AtMostOne ==
    \A v \in Invocations :
        /\ Len(TerminalNotifications(v)) <= 1
        /\ Notified(v, "info", "uploadSuccess") =>
              {e.file : e \in CommandExits(v, TRUE)} = Range(inv[v].imageFiles)

\* The counters of the per-file progress reports of v, in order.
Counters(v) ==
    LET files == SelectSeq(progress, LAMBDA r : r.inv = v /\ r.kind = "file")
    IN [j \in 1 .. Len(files) |-> files[j].index]

\* C8: the progress counters reported for a batch of N targets are 1, 2, ...
\* in order with no skip and no repeat, the total reported with each is N,
\* and they are 1 .. N when the batch has succeeded.
C8_ProgressMonotonic ==
    \A v \in Invocations :
        LET n == Len(inv[v].imageFiles)
        IN /\ Counters(v) = [j \in 1 .. Len(Counters(v)) |-> j]
           /\ Len(Counters(v)) <= n
           /\ \A r \in Range(progress) : (r.inv = v /\ r.kind = "file") => r.total = n
           /\ Notified(v, "info", "uploadSuccess") => Counters(v) = [j \in 1 .. n |-> j]

C8_Witness ==
    \E v \in Invocations :
        /\ Notified(v, "info", "uploadSuccess")
        /\ Counters(v) = <<1, 2, 3>>

\* The severity of a record: writeLog takes the content alone, so every
\* record has the default severity.
RecordSeverity == "info"

\* error=0, warn=1, info=2, debug=3
SeverityRank(level) ==
    CASE level = "error" -> 0
      [] level = "warn" -> 1
      [] level = "info" -> 2
      [] level = "debug" -> 3

\* C9: a log call appends a line to the log file only if logEnabled is set
\* and the rank of the record's severity is at most that of logLevel.
C9_LogGating ==
    [][logFile' # logFile =>
          /\ logSettings.logEnabled
          /\ SeverityRank(RecordSeverity) <= SeverityRank(logSettings.logLevel)]_vars

\* C10: a log write that fails is caught in the logger: no invocation is
\* left rejected or pending by it and no notification reports it.
C10_LogFailureContained ==
    \A v \in Invocations :
        /\ pc[v] \notin {"rejected", "hung"}
        /\ ~NotifiedError(v, LogWriteError)

\* The records of the shell's output that the specification keeps: KEY=VALUE
\* lines with at least one '=', the value being all that follows the first.
RECURSIVE Reported(_)
Reported(stdout) ==
    IF stdout = <<>> THEN NoEnv
    ELSE LET line == stdout[Len(stdout)]
             rest == Reported(SubSeq(stdout, 1, Len(stdout) - 1))
         IN IF Len(line) >= 2 /\ line[1] # ""
            THEN Put(rest, line[1], Join(Tail(line)))
            ELSE rest

\* The snapshot merged over the inherited environment.
Merged(query) ==
    LET reported == IF query.ok THEN Reported(query.stdout) ELSE NoEnv
    IN [n \in DOMAIN ProcessEnv \cup DOMAIN reported |->
           IF n \in DOMAIN reported THEN reported[n] ELSE ProcessEnv[n]]

\* C11: the environment passed to a spawned command contains every inherited
\* variable, with the shell-reported value when the query succeeded and
\* reported it and the inherited value otherwise; when the query fails the
\* environment is exactly the inherited one.
C11_EnvironmentSnapshot ==
    \A v \in Invocations :
        last[v].kind = "cmd" =>
            /\ \A n \in DOMAIN ProcessEnv :
                  /\ n \in DOMAIN last[v].env
                  /\ last[v].env[n] = Merged(last[v].query)[n]
            /\ ~last[v].query.ok => last[v].env = ProcessEnv

\* The part of C11 that the code keeps: a failed query passes the inherited
\* environment, and a reported KEY=VALUE record is passed with its value.
C11_FailureInherits ==
    \A v \in Invocations :
        last[v].kind = "cmd" =>
            /\ ~last[v].query.ok => last[v].env = ProcessEnv
            /\ \A n \in DOMAIN Reported(last[v].query.stdout) :
                  last[v].env = ProcessEnv \/ last[v].env[n] = Merged(last[v].query)[n]

\* C12: a single-file upload of a file that is not an image fails or is
\* ignored: no upload command is spawned for the file and no success
\* notification is shown.
C12_SingleFileImagesOnly ==
    \A v \in Invocations :
        (inv[v].kind = "single" /\ inv[v].resolved
             /\ ~IsImage(inv[v].imageFiles[1])) =>
            /\ \A j \in DOMAIN spawned :
                  ~(spawned[j].inv = v /\ spawned[j].kind = "cmd")
            /\ ~Notified(v, "info", "uploadSuccess")

\* The per-target progress reports, with the children spawned and the exits
\* delivered before each was made.
FileReports == {r \in Range(progress) : r.kind = "file"}

SpawnedBefore(r) == Range(SubSeq(spawned, 1, r.spawnedSoFar))

ExitsBefore(r) == Range(SubSeq(exits, 1, r.exitsSoFar))

RECURSIVE IncrementSum(_, _)
IncrementSum(reports, n) ==
    IF reports = <<>> THEN 0
    ELSE (Head(reports).incNum * n) \div Head(reports).incDen
             + IncrementSum(Tail(reports), n)

\* C16: the sum of the increments reported so far for an invocation is at
\* most 100 percent, and is 100 percent when its batch has succeeded.
C16_IncrementsWithinWhole ==
    \A v \in Invocations :
        LET n == Len(inv[v].imageFiles)
            sum == IncrementSum(Mine(progress, v), n)
        IN n > 0 =>
              /\ sum <= 100 * n
              /\ Notified(v, "info", "uploadSuccess") => sum = 100 * n

\* A batch has started once its target list is resolved and not empty; it is
\* terminal when its handler has shown the success or the error notification.
Started(v) == inv[v].resolved /\ Len(inv[v].imageFiles) > 0

\* Nothing is retried: no child is spawned twice for the same target of an
\* invocation, and a batch that is running waits for exactly one child.
C15_NoRetry ==
    \A v \in Invocations :
        /\ \A j, k \in DOMAIN spawned :
              (spawned[j] = spawned[k] /\ spawned[j].inv = v) => j = k
        /\ pc[v] = "running" => Cardinality({c \in running : c.inv = v}) = 1

\* While a batch waits for its child, only the exit of a child of the batch
\* moves it on or spawns anything for it.
C15_BlockedUntilExit ==
    [][\A v \in Invocations :
          (pc[v] = "running"
             /\ (pc'[v] # pc[v] \/ Mine(spawned', v) # Mine(spawned, v)))
          => Len(Mine(exits', v)) = Len(Mine(exits, v)) + 1]_vars

\* C15: when every spawned child process exits at some time, every started
\* batch reaches a terminal state (Completed or Failed), having spawned the
\* command for each target at most once.
C15_TerminationWithoutRetry ==
    /\ \A v \in Invocations : Started(v) ~> (pc[v] = "done")
    /\ []C15_NoRetry

\* The part of C15 that the code keeps: a started batch ends, and it ends in
\* a terminal state unless a log write threw (pc rejected or hung).
C15_EndsBarLogFailure ==
    \A v \in Invocations : Started(v) ~> (pc[v] \in {"done", "rejected", "hung"})

\* The files of the commands spawned for v, in order.
CommandsSpawned(v) ==
    LET cmds == SelectSeq(spawned, LAMBDA c : c.inv = v /\ c.kind = "cmd")
    IN [j \in 1 .. Len(cmds) |-> cmds[j].file]

\* C14: of two invocations each runs its own sequential batch.  A running
\* invocation waits for exactly one child of its own and no other child of it
\* runs; its commands follow its own target list and its counters are 1, 2, ...
\* of its own total; it shows success only when all its own commands have
\* succeeded, an execution error only for a command of its own that failed,
\* and when it ends without success, a command of its own failed or a log
\* write threw, whatever happened to the other invocation.
C14_IndependentInvocations ==
    \A v \in Pair :
        LET files == inv[v].imageFiles
            mine == {c \in running : c.inv = v}
        IN /\ Cardinality(mine) = IF pc[v] = "running" THEN 1 ELSE 0
           /\ Len(CommandsSpawned(v)) <= Len(files)
           /\ CommandsSpawned(v) = SubSeq(files, 1, Len(CommandsSpawned(v)))
           /\ Counters(v) = [j \in 1 .. Len(Counters(v)) |-> j]
           /\ \A r \in FileReports : r.inv = v => r.total = Len(files)
           /\ Notified(v, "info", "uploadSuccess") =>
                 /\ {e.file : e \in CommandExits(v, TRUE)} = Range(files)
                 /\ CommandExits(v, FALSE) = {}
           /\ \A n \in Range(notifications) :
                 (n.inv = v /\ n.error.type = "exec") =>
                     [inv |-> v, kind |-> "cmd", file |-> n.error.file, ok |-> FALSE]
                         \in Range(exits)
           /\ (pc[v] = "done" /\ ~Notified(v, "info", "uploadSuccess")) =>
                 \/ CommandExits(v, FALSE) # {}
                 \/ NotifiedError(v, LogWriteError)

\* Invocation 2 announced a target while a child of invocation 1 was running,
\* the first command of invocation 1 failed, and invocation 2 went on to its
\* second target after that and succeeded.
C14_Witness ==
    /\ NotifiedError(1, ExecError(1))
    /\ Notified(2, "info", "uploadSuccess")
    /\ \E r \in FileReports : r.inv = 2 /\ r.spawnedSoFar - r.exitsSoFar >= 1
    /\ \E r \in FileReports :
          /\ r.inv = 2
          /\ r.index = 2
          /\ [inv |-> 1, kind |-> "cmd", file |-> 1, ok |-> FALSE] \in ExitsBefore(r)

====
